---------------------------- MODULE Spec2Model ----------------------------
(***************************************************************************)
(* Model of the Apple Notes indexer: the note store and metadata store of  *)
(* storage.js (src/unnamed/part_001), and the build / search commands of   *)
(* src/index.js.                                                           *)
(*                                                                         *)
(* The two Datastore objects opened on notes.db (src/index.js:14 and       *)
(* src/unnamed/part_001:26) are modelled as one collection, `store`.       *)
(* Every nedb operation runs to completion on the datastore's executor, so *)
(* one update / findOne / remove is one atomic step; the steps of a build  *)
(* and of a saveNotes batch interleave with every other operation.         *)
(***************************************************************************)
EXTENDS Integers, Sequences, FiniteSets, TLC

VARIABLES
    store,        \* notes.db: the set of stored documents
    metaDb,       \* metadata.db: the set of stored documents
    searchIndex,  \* src/index.js:20, Null until a build installs an index
    notesCache,   \* src/index.js:21
    build,        \* the buildIndex call in flight: its position, the notes
                  \* it fetched, the progressCallback invocations it made
    batch,        \* the saveNotes call in flight: updates still queued
    last          \* the most recent step and what it returned to its caller

vars == <<store, metaDb, searchIndex, notesCache, build, batch, last>>

-----------------------------------------------------------------------------
(* Bounds and input sets *)

MaxFetch == 2
MaxBatch == 2

Ids == {"a", "b"}
Names == {"n1", "n2"}
Folders == {"f1"}
Queries == {"", "n1", "f1"}

\* JavaScript null / undefined
Null == [null |-> TRUE]

\* The notes the external source holds (src/index.js:40-47: every field is
\* set); body and the two dates are carried along unread by the operations
\* modelled here.
FetchedNote ==
    { [id |-> "a", name |-> "n1", folder |-> "f1"],
      [id |-> "b", name |-> "n2", folder |-> "f1"] }

\* A note as a caller of the store may pass it: the folder may be missing.
FullNote == [id : Ids, name : Names, folder : Folders]
ApiNote == FullNote \cup [id : Ids, name : {"n1"}]

DistinctIds(s) == \A i, j \in DOMAIN s : s[i].id = s[j].id => i = j

\* What jxa.run resolves with: the source assigns every note its own id.
FetchSeqs ==
    {s \in UNION {[1..n -> FetchedNote] : n \in 0..MaxFetch} : DistinctIds(s)}

BatchSeqs == UNION {[1..n -> FullNote] : n \in 0..MaxBatch}

MetaInputs ==
    { [lastIndexed |-> "t", noteCount |-> 1, indexed |-> TRUE],
      [lastIndexed |-> "t", noteCount |-> 1, indexed |-> TRUE,
       folderCount |-> 1],
      [lastIndexed |-> "null", noteCount |-> 0, indexed |-> FALSE] }

-----------------------------------------------------------------------------
(* nedb: update with upsert, findOne, remove *)

StripId(doc) == [f \in DOMAIN doc \ {"_id"} |-> doc[f]]

WithId(doc, k) == ("_id" :> k) @@ doc

\* the _id nedb generates for an inserted document: one no document has
NewId(coll) ==
    CHOOSE k \in 1..(Cardinality(coll) + 1) : \A d \in coll : d._id # k

\* the documents matching the query {field: value}
Candidates(coll, field, value) ==
    {d \in coll : field \in DOMAIN d /\ d[field] = value}

\* (variant: the fields of the old document that the new one lacks survive)
MergeDoc(old, new) == WithId(new @@ old, old._id)

\* a replacement document (no modifiers) takes the place of the old one
\* and keeps only its _id
ReplaceDoc(old, new) == WithId(new, old._id)

\* (variant: a plain insert, the query is not consulted)
InsertAlways(coll, field, value, newDoc) ==
    LET ins == WithId(newDoc, NewId(coll)) IN
    [coll |-> coll \cup {ins}, numReplaced |-> 1, upsert |-> ins]

\* db.update(query, newDoc, {upsert: true}, cb): what cb receives
\* (numReplaced, and the inserted document on an insert) and the collection
Update(coll, field, value, newDoc) ==
    LET found == Candidates(coll, field, value) IN
    IF found = {}
    THEN LET ins == WithId(newDoc, NewId(coll)) IN
         [coll |-> coll \cup {ins}, numReplaced |-> 1, upsert |-> ins]
    ELSE LET old == CHOOSE d \in found : \A e \in found : d._id <= e._id IN
         [coll |-> (coll \ {old}) \cup {ReplaceDoc(old, newDoc)},
          numReplaced |-> 1, upsert |-> Null]

FindOne(coll, field, value) ==
    LET found == Candidates(coll, field, value) IN
    IF found = {} THEN Null
    ELSE CHOOSE d \in found : \A e \in found : d._id <= e._id

\* (variant: the query is dropped, remove({}) with multi on)
RemoveEvery(coll, field, value) ==
    LET found == Candidates(coll, field, value) IN
    IF found = {} THEN [coll |-> coll, numRemoved |-> 0]
    ELSE [coll |-> {}, numRemoved |-> 1]

\* db.remove(query, {}, cb): multi is off, at most one document goes
Remove(coll, field, value) ==
    LET found == Candidates(coll, field, value) IN
    IF found = {} THEN [coll |-> coll, numRemoved |-> 0]
    ELSE [coll |-> coll \ {FindOne(coll, field, value)}, numRemoved |-> 1]

-----------------------------------------------------------------------------
(* storage.js: NotesDatabase *)

\* the record saveNote resolves with
SaveNoteResult(note, numReplaced, upsert) ==
    ("_updated" :> (numReplaced > 0)) @@ ("_new" :> (upsert # Null)) @@ note

\* saveNote(note); `ok` is whether the datastore accepted the write
saveNote(note, ok) ==
    /\ IF ok
       THEN LET u == Update(store, "id", note.id, note) IN
            /\ store' = u.coll
            /\ last' = [op |-> "saveNote", ok |-> TRUE,
                        ret |-> SaveNoteResult(note, u.numReplaced, u.upsert)]
       ELSE /\ store' = store
            /\ last' = [op |-> "saveNote", ok |-> FALSE]
    /\ UNCHANGED <<metaDb, searchIndex, notesCache, build, batch>>

\* (variant: a sequential loop that stops at the first failure)
AbortOnFailure(queue, ok) == IF ok THEN Tail(queue) ELSE <<>>

\* what is left queued once one update of a batch has run
RestOfBatch(queue, ok) == Tail(queue)

\* saveNotes(notes): Promise.all over notes.map(saveNote) issues every
\* update at once; the promise settles on the first rejection, or when all
\* have resolved
saveNotes(notes) ==
    /\ batch.queue = <<>>
    /\ batch' = [queue |-> notes,
                 status |-> IF notes = <<>> THEN "resolved" ELSE "pending"]
    /\ last' = [op |-> "saveNotes", count |-> Len(notes)]
    /\ UNCHANGED <<store, metaDb, searchIndex, notesCache, build>>

\* one queued update of the batch runs
saveNotesUpdate(ok) ==
    /\ batch.queue # <<>>
    /\ LET note == Head(batch.queue)
           rest == RestOfBatch(batch.queue, ok) IN
       /\ IF ok
          THEN store' = Update(store, "id", note.id, note).coll
          ELSE store' = store
       /\ batch' = [queue |-> rest,
                    status |-> IF batch.status = "rejected" \/ ~ok
                               THEN "rejected"
                               ELSE IF rest = <<>> THEN "resolved"
                               ELSE "pending"]
       /\ last' = IF ok
                  THEN [op |-> "saveNotes.update", ok |-> TRUE, note |-> note]
                  ELSE [op |-> "saveNotes.update", ok |-> FALSE]
    /\ UNCHANGED <<metaDb, searchIndex, notesCache, build>>

getNote(id) ==
    /\ last' = [op |-> "getNote", id |-> id, ret |-> FindOne(store, "id", id)]
    /\ UNCHANGED <<store, metaDb, searchIndex, notesCache, build, batch>>

deleteNote(id) ==
    LET r == Remove(store, "id", id) IN
    /\ store' = r.coll
    /\ last' = [op |-> "deleteNote", id |-> id, ret |-> r.numRemoved]
    /\ UNCHANGED <<metaDb, searchIndex, notesCache, build, batch>>

\* the documents of a collection as find({}) lists them
FindAll(coll) ==
    LET RECURSIVE list(_)
        list(c) ==
            IF c = {} THEN <<>>
            ELSE LET d == CHOOSE x \in c : \A y \in c : x._id <= y._id IN
                 <<d>> \o list(c \ {d})
    IN list(coll)

\* doc.folder: the string "undefined" stands for JavaScript's undefined,
\* which is what a document without the field yields
FolderOf(doc) == IF "folder" \in DOMAIN doc THEN doc.folder ELSE "undefined"

\* [...new Set(values)]: each value once, at its first place
SetToArray(values) ==
    LET RECURSIVE uniq(_, _)
        uniq(k, acc) ==
            IF k > Len(values) THEN acc
            ELSE IF \E j \in 1..Len(acc) : acc[j] = values[k]
            THEN uniq(k + 1, acc)
            ELSE uniq(k + 1, Append(acc, values[k]))
    IN uniq(1, <<>>)

\* what getFolders resolves with
getFoldersResult(coll) ==
    LET docs == FindAll(coll) IN
    SetToArray([k \in 1..Len(docs) |-> FolderOf(docs[k])])

getFolders ==
    /\ last' = [op |-> "getFolders", ret |-> getFoldersResult(store)]
    /\ UNCHANGED <<store, metaDb, searchIndex, notesCache, build, batch>>

-----------------------------------------------------------------------------
(* storage.js: IndexMetadata *)

\* (variant: the document is stored without its type tag)
MetaDocUntyped(metadata) == ("updatedAt" :> "t") @@ metadata

MetaDoc(metadata) ==
    ("type" :> "index_metadata") @@ ("updatedAt" :> "t") @@ metadata

DefaultMetadata ==
    [type |-> "index_metadata", lastIndexed |-> "null", noteCount |-> 0,
     indexed |-> FALSE, updatedAt |-> "t"]

getMetadataResult(coll) ==
    LET doc == FindOne(coll, "type", "index_metadata") IN
    IF doc = Null THEN DefaultMetadata ELSE doc

saveMetadata(metadata) ==
    /\ metaDb' = Update(metaDb, "type", "index_metadata",
                        MetaDoc(metadata)).coll
    /\ last' = [op |-> "saveMetadata", metadata |-> metadata]
    /\ UNCHANGED <<store, searchIndex, notesCache, build, batch>>

getMetadata ==
    /\ last' = [op |-> "getMetadata", ret |-> getMetadataResult(metaDb)]
    /\ UNCHANGED <<store, metaDb, searchIndex, notesCache, build, batch>>

-----------------------------------------------------------------------------
(* index.js: buildIndex / indexNotesCommand *)

Idle ==
    [pc |-> "idle", notes |-> <<>>, i |-> 0, fetchFailed |-> FALSE,
     progress |-> <<>>]

\* what fetchAppleNotes hands to buildIndex: the notes jxa.run resolved
\* with, or [] when jxa.run rejected (the catch at src/index.js:55-58)
fetchAppleNotes(failed, notes) == IF failed THEN <<>> ELSE notes

\* (variant: the loop index is reported as it is, from 0)
ProgressEventFromZero(i, notes) ==
    [current |-> i, total |-> Len(notes), note |-> notes[i + 1].name]

\* the argument of the progress callback for notes[i], i counted from 0
ProgressEvent(i, notes) ==
    [current |-> i + 1, total |-> Len(notes), note |-> notes[i + 1].name]

\* lunr(...): the index over the given notes
lunrIndex(notes) == [docs |-> notes]

\* (variant: the loop leaves the last note out)
LoopStopsEarly(i, notes) == i + 1 < Len(notes)

\* the test of the for loop over the fetched notes (line 67)
LoopContinues(i, notes) == i < Len(notes)

\* (variant: the new index is installed, the cache keeps the old notes)
InstallIndexOnly(notes, failed, calls) ==
    /\ searchIndex' = lunrIndex(notes)
    /\ notesCache' = notesCache
    /\ build' = Idle
    /\ last' = [op |-> "indexNotes", fetchFailed |-> failed,
                success |-> TRUE, indexed |-> Len(notes), notes |-> notes,
                progress |-> calls]

\* lines 91-108: the index and the cache are installed, the build returns;
\* `calls` are the progress callbacks the build made
Install(notes, failed, calls) ==
    /\ searchIndex' = lunrIndex(notes)
    /\ notesCache' = notes
    /\ build' = Idle
    /\ last' = [op |-> "indexNotes", fetchFailed |-> failed,
                success |-> TRUE, indexed |-> Len(notes), notes |-> notes,
                progress |-> calls]

\* (variant: the notes fetched are indexed although the build fails)
RejectAfterInstall(notes) ==
    /\ searchIndex' = lunrIndex(notes)
    /\ notesCache' = notes
    /\ build' = Idle
    /\ last' = [op |-> "indexNotes", fetchFailed |-> build.fetchFailed,
                success |-> FALSE, indexed |-> 0, notes |-> notes,
                progress |-> build.progress]

\* the awaited update rejected: buildIndex leaves the loop through its
\* catch and rethrows, indexNotesCommand returns success: false
Reject(notes) ==
    /\ build' = Idle
    /\ last' = [op |-> "indexNotes", fetchFailed |-> build.fetchFailed,
                success |-> FALSE, indexed |-> 0, notes |-> notes,
                progress |-> build.progress]
    /\ UNCHANGED <<searchIndex, notesCache>>

\* indexNotesCommand is invoked: buildIndex awaits fetchAppleNotes
indexNotes ==
    /\ build.pc = "idle"
    /\ build' = [Idle EXCEPT !.pc = "fetch"]
    /\ last' = [op |-> "indexNotes.start"]
    /\ UNCHANGED <<store, metaDb, searchIndex, notesCache, batch>>

\* jxa.run settles; buildIndex runs on to its next await or to its end
fetchDone(failed, resolved) ==
    /\ build.pc = "fetch"
    /\ LET notes == fetchAppleNotes(failed, resolved) IN
       IF ~LoopContinues(0, notes)
       THEN Install(notes, failed, build.progress)
       ELSE /\ build' = [pc |-> "upsert", notes |-> notes, i |-> 0,
                         fetchFailed |-> failed,
                         progress |-> <<ProgressEvent(0, notes)>>]
            /\ last' = [op |-> "fetchAppleNotes", failed |-> failed]
            /\ UNCHANGED <<searchIndex, notesCache>>
    /\ UNCHANGED <<store, metaDb, batch>>

\* the db.update of notes[i] calls back; buildIndex runs on
upsertDone(ok) ==
    /\ build.pc = "upsert"
    /\ LET notes == build.notes
           note == notes[build.i + 1] IN
       IF ~ok
       THEN /\ store' = store
            /\ Reject(notes)
       ELSE /\ store' = Update(store, "id", note.id, note).coll
            /\ IF LoopContinues(build.i + 1, notes)
               THEN /\ build' =
                         [build EXCEPT
                            !.i = build.i + 1,
                            !.progress =
                               Append(build.progress,
                                      ProgressEvent(build.i + 1, notes))]
                    /\ last' = [op |-> "buildIndex.update", i |-> build.i]
                    /\ UNCHANGED <<searchIndex, notesCache>>
               ELSE Install(notes, build.fetchFailed, build.progress)
    /\ UNCHANGED <<metaDb, batch>>

-----------------------------------------------------------------------------
(* index.js: searchNotes / searchNotesCommand *)

\* searchIndex.search(query): references and scores, best first; a note
\* whose name is the term scores the name boost, one whose folder is the
\* term the plain weight
lunrSearch(idx, query) ==
    LET byName == SelectSeq(idx.docs, LAMBDA n : n.name = query)
        byFolder == SelectSeq(idx.docs,
                              LAMBDA n : n.name # query /\ n.folder = query)
    IN [k \in 1..Len(byName) |-> [ref |-> byName[k].id, score |-> 10]]
       \o [k \in 1..Len(byFolder) |-> [ref |-> byFolder[k].id, score |-> 1]]

\* {...note, score} with note = notesCache.find(n => n.id === ref)
Resolve(cache, hit) ==
    LET found == {k \in DOMAIN cache : cache[k].id = hit.ref} IN
    IF found = {} THEN [score |-> hit.score]
    ELSE ("score" :> hit.score)
         @@ cache[CHOOSE k \in found : \A m \in found : k <= m]

\* what searchNotesCommand returns
searchNotesResult(idx, cache, query) ==
    IF query = ""
    THEN [success |-> FALSE, error |-> "Please provide a search query"]
    ELSE IF idx = Null
    THEN [success |-> FALSE, error |-> "Index not built yet"]
    ELSE LET hits == lunrSearch(idx, query) IN
         [success |-> TRUE,
          results |-> [k \in 1..Len(hits) |-> Resolve(cache, hits[k])],
          count |-> Len(hits)]

searchNotes(query) ==
    /\ last' = [op |-> "searchNotes", query |-> query,
                ret |-> searchNotesResult(searchIndex, notesCache, query)]
    /\ UNCHANGED <<store, metaDb, searchIndex, notesCache, build, batch>>

-----------------------------------------------------------------------------
(* index.js: getIndexStats / viewIndexCommand *)

getIndexStatsResult(coll, cache, idx) ==
    [totalNotes |-> Cardinality(coll), indexed |-> Len(cache),
     isIndexed |-> idx # Null]

viewIndex ==
    /\ last' = [op |-> "viewIndex",
                ret |-> [success |-> TRUE,
                         stats |-> getIndexStatsResult(store, notesCache,
                                                       searchIndex)]]
    /\ UNCHANGED <<store, metaDb, searchIndex, notesCache, build, batch>>

-----------------------------------------------------------------------------
(* search.js: parseQuery *)

\* A query string is a sequence of atoms: pieces of text that the three
\* patterns of parseQuery either take or leave whole.  A double quote, a
\* space, words, the directive keys, sort modes in several letter cases,
\* dates.
Quote == "\""

Space == " "

KeyAtoms == {"folder:", "date:", "sort:", "SORT:"}

DateAtoms == {"2023-01-01", "2023-01-02"}

\* a string made by the parser, where the value may also be null
Str(atoms) == [str |-> atoms]

\* String.prototype.toLowerCase, atom by atom
toLowerCase(atom) ==
    CASE atom = "SORT:" -> "sort:"
      [] atom = "dateNewest" -> "datenewest"
      [] atom = "dateOldest" -> "dateoldest"
      [] atom = "DATEOLDEST" -> "dateoldest"
      [] atom = "Work" -> "work"
      [] atom = "Home" -> "home"
      [] OTHER -> atom

NoMatch == [found |-> FALSE]

\* the least element of a non-empty set of positions
First(positions) == CHOOSE i \in positions : \A j \in positions : i <= j

\* /folder:["']([^"']+)["']/i : the leftmost match in s
FolderMatch(s) ==
    LET closing(i) == {j \in (i + 3)..Len(s) : s[j] = Quote}
        starts == {i \in 1..Len(s) :
                      /\ toLowerCase(s[i]) = "folder:"
                      /\ i + 3 <= Len(s)
                      /\ s[i + 1] = Quote
                      /\ s[i + 2] # Quote
                      /\ closing(i) # {}}
    IN IF starts = {} THEN NoMatch
       ELSE LET i == First(starts)
                j == First(closing(i))
            IN [found |-> TRUE, index |-> i, end |-> j,
                text |-> SubSeq(s, i, j), group1 |-> SubSeq(s, i + 2, j - 1)]

\* the last position of the run of spaces that starts at k (k - 1: no run)
SpacesEnd(s, k) ==
    LET run == {e \in (k - 1)..Len(s) : \A m \in k..e : s[m] = Space} IN
    CHOOSE e \in run : \A x \in run : x <= e

\* the end of /(\d{4}-\d{2}-\d{2})(?:\s+to\s+(\d{4}-\d{2}-\d{2}))?["']/ tried
\* at position k of s, as a record; 0 when it does not match there
DateTail(s, k) ==
    LET a == SpacesEnd(s, k + 1)
        b == SpacesEnd(s, a + 2)
    IN IF k > Len(s) \/ s[k] \notin DateAtoms THEN [end |-> 0]
       ELSE IF /\ a >= k + 1
               /\ a + 1 <= Len(s) /\ toLowerCase(s[a + 1]) = "to"
               /\ b >= a + 2
               /\ b + 2 <= Len(s)
               /\ s[b + 1] \in DateAtoms
               /\ s[b + 2] = Quote
       THEN [end |-> b + 2, group1 |-> s[k], group2 |-> s[b + 1]]
       ELSE IF k + 1 <= Len(s) /\ s[k + 1] = Quote
       THEN [end |-> k + 1, group1 |-> s[k], group2 |-> "undefined"]
       ELSE [end |-> 0]

\* /date:["'](...)["']/i : the leftmost match in s
DateMatch(s) ==
    LET starts == {i \in 1..Len(s) :
                      /\ toLowerCase(s[i]) = "date:"
                      /\ i + 1 <= Len(s)
                      /\ s[i + 1] = Quote
                      /\ DateTail(s, i + 2).end # 0}
    IN IF starts = {} THEN NoMatch
       ELSE LET i == First(starts)
                t == DateTail(s, i + 2)
            IN [found |-> TRUE, index |-> i, end |-> t.end,
                text |-> SubSeq(s, i, t.end),
                group1 |-> t.group1, group2 |-> t.group2]

\* /sort:(relevance|dateNewest|dateOldest|alphabetical)/i : the leftmost
\* match in s
SortMatch(s) ==
    LET starts == {i \in 1..Len(s) :
                      /\ toLowerCase(s[i]) = "sort:"
                      /\ i + 1 <= Len(s)
                      /\ toLowerCase(s[i + 1]) \in
                            {"relevance", "datenewest", "dateoldest",
                             "alphabetical"}}
    IN IF starts = {} THEN NoMatch
       ELSE LET i == First(starts) IN
            [found |-> TRUE, index |-> i, end |-> i + 1,
             text |-> SubSeq(s, i, i + 1), group1 |-> s[i + 1]]

\* (variant: the text is left as it is)
KeepText(s, sub) == s

\* s.replace(sub, ''): the first occurrence of sub is taken out of s
Replace(s, sub) ==
    LET at == {k \in 1..(Len(s) - Len(sub) + 1) :
                  SubSeq(s, k, k + Len(sub) - 1) = sub}
    IN IF at = {} THEN s
       ELSE LET k == First(at) IN
            SubSeq(s, 1, k - 1) \o SubSeq(s, k + Len(sub), Len(s))

\* s.trim()
Trim(s) ==
    LET inner == {k \in 1..Len(s) : s[k] # Space} IN
    IF inner = {} THEN <<>>
    ELSE SubSeq(s, First(inner),
                CHOOSE k \in inner : \A m \in inner : m <= k)

\* what parseQuery returns
parseQueryResult(queryString) ==
    LET result0 == [query |-> queryString, folder |-> Null,
                    dateRange |-> Null, sortBy |-> "relevance"]
        folderMatch == FolderMatch(queryString)
        result1 ==
            IF folderMatch.found
            THEN [result0 EXCEPT
                    !.folder = Str(folderMatch.group1),
                    !.query = Trim(Replace(result0.query, folderMatch.text))]
            ELSE result0
        dateMatch == DateMatch(queryString)
        start == dateMatch.group1
        end == IF dateMatch.group2 = "undefined" THEN start
               ELSE dateMatch.group2
        result2 ==
            IF dateMatch.found
            THEN [result1 EXCEPT
                    !.dateRange = [start |-> start, end |-> end],
                    !.query = Trim(Replace(result1.query, dateMatch.text))]
            ELSE result1
        sortMatch == SortMatch(queryString)
    IN IF sortMatch.found
       THEN [result2 EXCEPT
               !.sortBy = toLowerCase(sortMatch.group1),
               !.query = Trim(Replace(result2.query, sortMatch.text))]
       ELSE result2

\* `source` is Null for a query string of the caller's; for the remainder
\* of a parsed query it is the string that was parsed
parseQuery(queryString, source) ==
    /\ last' = [op |-> "parseQuery", queryString |-> queryString,
                source |-> source, ret |-> parseQueryResult(queryString)]
    /\ UNCHANGED <<store, metaDb, searchIndex, notesCache, build, batch>>

-----------------------------------------------------------------------------
(* search.js: createEnhancedSearchIndex, advancedSearch *)

\* new Date(value).getTime(), in hours from 2023-01-01T00:00Z; a date
\* without a time of day is midnight UTC
NewDate(value) ==
    CASE value = "2023-01-01" -> 0
      [] value = "2023-01-01T12:00Z" -> 12
      [] value = "2023-01-02" -> 24
      [] value = "2023-01-02T00:00Z" -> 24
      [] value = "2023-01-02T12:00Z" -> 36

\* the place of a name in the order of localeCompare
LocaleRank(name) == IF name = "meeting" THEN 1 ELSE 2

\* the notes given to createEnhancedSearchIndex
SearchNotes ==
    << [id |-> "a", name |-> "meeting", body |-> "agenda", folder |-> "Work",
        modificationDate |-> "2023-01-01T12:00Z"],
       [id |-> "b", name |-> "plan", body |-> "meeting", folder |-> "Home",
        modificationDate |-> "2023-01-02T00:00Z"],
       [id |-> "c", name |-> "meeting", body |-> "agenda", folder |-> "Work",
        modificationDate |-> "2023-01-02T12:00Z"] >>

\* the lunr index of lines 12-37.  Which result a query without any term
\* has depends on the lunr release: none before 2.2, every document (with
\* score 0) since; the index carries which.
createEnhancedSearchIndex(notes, matchAllOnEmpty) ==
    [docs |-> notes, matchAllOnEmpty |-> matchAllOnEmpty]

\* the query string cut at its spaces
Tokens(query) ==
    LET RECURSIVE cut(_, _, _)
        cut(k, cur, acc) ==
            IF k > Len(query)
            THEN IF cur = <<>> THEN acc ELSE Append(acc, cur)
            ELSE IF query[k] = Space
            THEN cut(k + 1, <<>>, IF cur = <<>> THEN acc ELSE Append(acc, cur))
            ELSE cut(k + 1, Append(cur, query[k]), acc)
    IN cut(1, <<>>, <<>>)

\* lunr's query parser on one token: a term for every field, a term for
\* the field named before the colon, or no clause at all (an unknown
\* field, a field without a term)
Clause(token) ==
    IF \A k \in DOMAIN token : token[k] \notin KeyAtoms
    THEN [ok |-> TRUE, fields |-> {"name", "body", "folder"}, term |-> token]
    ELSE IF /\ token[1] = "folder:"
            /\ Len(token) > 1
            /\ \A k \in 2..Len(token) : token[k] \notin KeyAtoms
    THEN [ok |-> TRUE, fields |-> {"folder"}, term |-> Tail(token)]
    ELSE [ok |-> FALSE]

\* (variant: a query without terms matches the first document)
NoClauseHitsFirst(idx) ==
    [k \in 1..(IF Len(idx.docs) > 0 THEN 1 ELSE 0) |->
        [ref |-> idx.docs[k].id, score |-> 0]]

\* the hits of a query without any term
NoClauseHits(idx) ==
    IF idx.matchAllOnEmpty
    THEN [k \in 1..Len(idx.docs) |-> [ref |-> idx.docs[k].id, score |-> 0]]
    ELSE <<>>

\* the boost of the fields in which the document has the term
FieldScore(doc, clause) ==
    LET hit(f) == /\ f \in clause.fields
                  /\ f \in DOMAIN doc
                  /\ Len(clause.term) = 1
                  /\ toLowerCase(clause.term[1]) = toLowerCase(doc[f])
    IN (IF hit("name") THEN 10 ELSE 0) + (IF hit("folder") THEN 5 ELSE 0)
       + (IF hit("body") THEN 1 ELSE 0)

\* Array.prototype.sort: `before` has the pair <<k, p>> when the comparator
\* is negative for s[k] and s[p]; elements that the comparator does not
\* order keep the order they had (the sort is stable)
StableSort(s, before) ==
    LET RECURSIVE ins(_, _)
        ins(k, acc) ==
            IF k > Len(s) THEN acc
            ELSE LET later == {p \in 1..Len(acc) : <<k, acc[p]>> \in before}
                     p == IF later = {} THEN Len(acc) + 1 ELSE First(later)
                 IN ins(k + 1, SubSeq(acc, 1, p - 1) \o <<k>>
                               \o SubSeq(acc, p, Len(acc)))
        order == ins(1, <<>>)
    IN [k \in 1..Len(s) |-> s[order[k]]]

\* idx.search(query) of line 51: the documents that have some term, best
\* score first; it throws on a query it cannot parse
enhancedSearch(idx, query) ==
    LET tokens == Tokens(query)
        clauses == [k \in 1..Len(tokens) |-> Clause(tokens[k])]
        RECURSIVE total(_, _)
        total(doc, k) ==
            IF k > Len(clauses) THEN 0
            ELSE FieldScore(doc, clauses[k]) + total(doc, k + 1)
        scored == [k \in 1..Len(idx.docs) |->
                      [ref |-> idx.docs[k].id,
                       score |-> total(idx.docs[k], 1)]]
    IN IF \E k \in 1..Len(clauses) : ~clauses[k].ok
       THEN [threw |-> TRUE, error |-> "QueryParseError"]
       ELSE IF tokens = <<>>
       THEN [threw |-> FALSE, hits |-> NoClauseHits(idx)]
       ELSE [threw |-> FALSE,
             hits |-> LET matching ==
                          SelectSeq(scored, LAMBDA h : h.score > 0)
                      IN StableSort(matching,
                                    {<<k, p>> \in (DOMAIN matching)
                                                  \X (DOMAIN matching) :
                                        matching[k].score
                                           > matching[p].score})]

\* lines 62-80: the folder filter and the date filter
Filtered(results, folder, dateRange) ==
    LET inFolder ==
            IF folder = Null THEN results
            ELSE SelectSeq(results,
                           LAMBDA note : /\ "folder" \in DOMAIN note
                                         /\ Str(<<note.folder>>) = folder)
    IN IF dateRange = Null THEN inFolder
       ELSE SelectSeq(inFolder,
                      LAMBDA note :
                          /\ "modificationDate" \in DOMAIN note
                          /\ NewDate(note.modificationDate)
                                >= NewDate(dateRange.start)
                          /\ NewDate(note.modificationDate)
                                <= NewDate(dateRange.end))

\* a.name.localeCompare of line 98 is called on an element without a name:
\* the comparator runs as soon as there are two elements, and throws
SortThrows(results, sortBy) ==
    /\ sortBy = "alphabetical"
    /\ Len(results) > 1
    /\ \E k \in DOMAIN results : "name" \notin DOMAIN results[k]

\* lines 82-101: the switch on sortBy; a value that is no case label
\* leaves the order as it is.  A date comparator is NaN for an element
\* without modificationDate, which orders nothing.
Sorted(results, sortBy) ==
    LET pairs == (DOMAIN results) \X (DOMAIN results)
        dated(k) == "modificationDate" \in DOMAIN results[k]
        time(k) == NewDate(results[k].modificationDate)
    IN CASE sortBy = "dateNewest" ->
              StableSort(results,
                         {<<k, p>> \in pairs :
                             dated(k) /\ dated(p) /\ time(p) - time(k) < 0})
         [] sortBy = "dateOldest" ->
              StableSort(results,
                         {<<k, p>> \in pairs :
                             dated(k) /\ dated(p) /\ time(k) - time(p) < 0})
         [] sortBy = "alphabetical" ->
              StableSort(results,
                         {<<k, p>> \in pairs :
                             LocaleRank(results[k].name)
                                < LocaleRank(results[p].name)})
         [] OTHER -> results

\* what advancedSearch returns, or that it threw
advancedSearchResult(idx, notes, options) ==
    LET base == enhancedSearch(idx, options.query) IN
    IF base.threw THEN base
    ELSE LET results == [k \in 1..Len(base.hits) |->
                            Resolve(notes, base.hits[k])]
             filtered == Filtered(results, options.folder, options.dateRange)
         IN IF SortThrows(filtered, options.sortBy)
            THEN [threw |-> TRUE, error |-> "TypeError"]
            ELSE [threw |-> FALSE,
                  results |-> Sorted(filtered, options.sortBy)]

\* queryString is the string the options were parsed from
advancedSearch(queryString, options) ==
    /\ last' = [op |-> "advancedSearch", queryString |-> queryString,
                options |-> options,
                ret |-> advancedSearchResult(searchIndex, notesCache,
                                             options)]
    /\ UNCHANGED <<store, metaDb, searchIndex, notesCache, build, batch>>

-----------------------------------------------------------------------------
(* The process exits and starts again: module state is initialised afresh  *)
(* (src/index.js:20-21), the two datastore files keep their content.       *)

NoBatch == [queue |-> <<>>, status |-> "resolved"]

restart ==
    /\ searchIndex' = Null
    /\ notesCache' = <<>>
    /\ build' = Idle
    /\ batch' = NoBatch
    /\ last' = [op |-> "restart"]
    /\ UNCHANGED <<store, metaDb>>

-----------------------------------------------------------------------------

Init ==
    /\ store = {}
    /\ metaDb = {}
    /\ searchIndex = Null
    /\ notesCache = <<>>
    /\ build = Idle
    /\ batch = NoBatch
    /\ last = [op |-> "restart"]

\* The commands of index.js over the two datastores, across restarts.
Next ==
    \/ indexNotes
    \/ \E failed \in BOOLEAN, resolved \in FetchSeqs :
          fetchDone(failed, resolved)
    \/ \E ok \in BOOLEAN : upsertDone(ok)
    \/ \E query \in Queries : searchNotes(query)
    \/ \E metadata \in MetaInputs : saveMetadata(metadata)
    \/ getMetadata
    \/ viewIndex
    \/ restart

Spec == Init /\ [][Next]_vars

\* Every writer and reader of the note store: the NotesDatabase operations
\* interleaved with the upserts of a build.
NextStore ==
    \/ \E note \in ApiNote, ok \in BOOLEAN : saveNote(note, ok)
    \/ \E notes \in BatchSeqs : saveNotes(notes)
    \/ \E ok \in BOOLEAN : saveNotesUpdate(ok)
    \/ \E id \in Ids : getNote(id)
    \/ \E id \in Ids : deleteNote(id)
    \/ getFolders
    \/ indexNotes
    \/ \E failed \in BOOLEAN, resolved \in FetchSeqs :
          fetchDone(failed, resolved)
    \/ \E ok \in BOOLEAN : upsertDone(ok)

SpecStore == Init /\ [][NextStore]_vars

-----------------------------------------------------------------------------
(* The query strings a caller gives to parseQuery *)

MaxPieces == 3

Pieces ==
    { <<"meeting">>, <<Space>>, <<"relevance">>, <<"sort:">>,
      <<"folder:", Quote, "Work", Quote>>,
      <<"folder:", Quote, "Work">>,
      <<"date:", Quote, "2023-01-01", Quote>>,
      <<"date:", Quote, "2023-01-01", Space, "to", Space, "2023-01-02",
        Quote>>,
      <<"sort:", "dateNewest">>,
      <<"SORT:", "DATEOLDEST">>,
      <<"sort:", "relevance">>,
      <<"sort:", "alphabetical">> }

\* the pieces one after the other, with `glue` between two of them
Join(pieces, glue) ==
    LET RECURSIVE join(_)
        join(k) ==
            IF k > Len(pieces) THEN <<>>
            ELSE IF k = Len(pieces) THEN pieces[k]
            ELSE pieces[k] \o glue \o join(k + 1)
    IN join(1)

RawQueries ==
    UNION { { Join(ps, glue) : ps \in [1..n -> Pieces],
                               glue \in {<<>>, <<Space>>} }
            : n \in 0..MaxPieces }

\* An index of search.js over SearchNotes, and index.js after a build of
\* the same notes.
InitQuery ==
    /\ store = {}
    /\ metaDb = {}
    /\ \E all \in BOOLEAN :
          searchIndex = createEnhancedSearchIndex(SearchNotes, all)
    /\ notesCache = SearchNotes
    /\ build = Idle
    /\ batch = NoBatch
    /\ last = [op |-> "createEnhancedSearchIndex"]

\* One query string is parsed, its remainder may be parsed again, and the
\* parsed query is executed; parseQuery and advancedSearch change no state,
\* so one query string per behaviour covers every call.
NextQuery ==
    \/ /\ last.op \notin {"parseQuery", "advancedSearch"}
       /\ \E q \in RawQueries : parseQuery(q, Null)
    \/ /\ last.op = "parseQuery"
       /\ parseQuery(last.ret.query, Str(last.queryString))
    \/ /\ last.op = "parseQuery"
       /\ advancedSearch(last.queryString, last.ret)
    \/ \E query \in Queries : searchNotes(query)

SpecQuery == InitQuery /\ [][NextQuery]_vars

-----------------------------------------------------------------------------
(* The caller of search.js keeps the array it gave to                      *)
(* createEnhancedSearchIndex; advancedSearch resolves against that array   *)
(* (src/search.js:55), not against a copy.                                 *)

\* the caller takes the last note off its array, once
popNote ==
    /\ last.op = "createEnhancedSearchIndex"
    /\ Len(notesCache) > 0
    /\ notesCache' = SubSeq(notesCache, 1, Len(notesCache) - 1)
    /\ last' = [op |-> "notes.pop"]
    /\ UNCHANGED <<store, metaDb, searchIndex, build, batch>>

NextResolve ==
    \/ popNote
    \/ /\ last.op \notin {"parseQuery", "advancedSearch"}
       /\ \E q \in RawQueries : parseQuery(q, Null)
    \/ /\ last.op = "parseQuery"
       /\ advancedSearch(last.queryString, last.ret)

SpecResolve == InitQuery /\ [][NextResolve]_vars

-----------------------------------------------------------------------------
(* Properties *)

\* the note a saveNote result was made from
NoteOf(ret) == [f \in DOMAIN ret \ {"_updated", "_new"} |-> ret[f]]

\* what a cold-start recovery would have to work from: persisted metadata
\* saying indexed, and a non-empty note store
ColdStartRecoverable == getMetadataResult(metaDb).indexed /\ store # {}

\* state Empty: no index in memory and no build under way
Empty == searchIndex = Null /\ build.pc = "idle"

\* C1: when the external source fails during a build, the build request
\* fails and the in-memory index and notes snapshot stay what they were.
C1_FetchFailureFailsBuild ==
    [][ (last'.op = "indexNotes" /\ last'.fetchFailed) =>
           /\ ~last'.success
           /\ searchIndex' = searchIndex
           /\ notesCache' = notesCache ]_vars

\* C2: a build that completes successfully with n notes leaves persisted
\* metadata with indexed = true, noteCount = n and a non-null lastIndexed;
\* a build that fails leaves the persisted metadata as it was.
C2_BuildPersistsMetadata ==
    [][ last'.op = "indexNotes" =>
           IF last'.success
           THEN LET m == getMetadataResult(metaDb') IN
                /\ m.indexed
                /\ m.noteCount = last'.indexed
                /\ m.lastIndexed # "null"
           ELSE metaDb' = metaDb ]_vars

\* C3: in a fresh process whose persisted metadata says indexed and whose
\* store is not empty, a search succeeds on an index rebuilt from the
\* store, and no fetch is started.
C3_ColdStartSearch ==
    [][ (last'.op = "searchNotes" /\ last'.query # "" /\ Empty
           /\ ColdStartRecoverable) =>
           /\ last'.ret.success
           /\ searchIndex' # Null
           /\ build' = build ]_vars

\* C4: a search issued in state Empty fails with the index-not-built error
\* exactly when cold-start recovery yields no usable index, and never
\* starts a fetch.
C4_EmptySearchRecoversOnce ==
    [][ (last'.op = "searchNotes" /\ last'.query # "" /\ Empty) =>
           /\ last'.ret.success <=> ColdStartRecoverable
           /\ ~last'.ret.success => last'.ret.error = "Index not built yet"
           /\ build' = build ]_vars

\* the progress reports a build over `notes` owes for its first k notes
ExpectedProgress(notes, k) ==
    [j \in 1..k |-> [current |-> j, total |-> Len(notes),
                     note |-> notes[j].name]]

\* C5: a build that fetched n notes and whose upserts all succeeded has
\* invoked the progress callback exactly n times, the k-th time with
\* current = k, total = n and the name of the k-th fetched note; while the
\* upsert of the k-th note is pending, exactly the first k reports are out.
C5_ProgressInFetchOrder ==
    /\ (last.op = "indexNotes" /\ last.success) =>
          last.progress = ExpectedProgress(last.notes, Len(last.notes))
    /\ build.pc = "upsert" =>
          build.progress = ExpectedProgress(build.notes, build.i + 1)

C5_Witness ==
    /\ last.op = "indexNotes" /\ last.success
    /\ Len(last.notes) = 2 /\ Len(last.progress) = 2

\* C6: right after a successful upsert(N), get(N.id) finds a record whose
\* note fields are exactly those of N: none is missing and none is left
\* over from the record N replaced.
C6_UpsertThenGet ==
    (last.op = "saveNote" /\ last.ok) =>
        LET got == FindOne(store, "id", last.ret.id) IN
        /\ got # Null
        /\ StripId(got) = NoteOf(last.ret)

\* a second upsert with the same id, of a note that has no folder
C6_Witness ==
    /\ last.op = "saveNote" /\ last.ok
    /\ ~last.ret._new
    /\ "folder" \notin DOMAIN NoteOf(last.ret)
    /\ "folder" \notin DOMAIN FindOne(store, "id", last.ret.id)

C8_NewOrReplacedMark ==
    [][ (last'.op = "saveNote" /\ last'.ok) =>
           LET existed == Candidates(store, "id", last'.ret.id) # {} IN
           /\ last'.ret._new <=> ~existed
           /\ last'.ret._updated <=> existed ]_vars

\* the records of the collection other than those with the given id
Others(coll, id) == coll \ Candidates(coll, "id", id)

\* C9 as stated: a failed element makes the batch report failure and
\* leaves the store alone, and no element after a failed one is written.
C9_FailureAbortsRest ==
    [][ last'.op = "saveNotes.update" =>
           /\ ~last'.ok => (batch'.status = "rejected" /\ store' = store)
           /\ batch.status = "rejected" => store' = store ]_vars

\* C9 as amended: a failed element makes the batch report failure, for
\* good, and rolls nothing back; every element is still attempted in turn,
\* also after a failure, and one whose upsert succeeds is written, the
\* records of the other ids staying as they were.
C9_FailureLeavesRestQueued ==
    [][ last'.op = "saveNotes.update" =>
           /\ batch'.queue = Tail(batch.queue)
           /\ ~last'.ok => (batch'.status = "rejected" /\ store' = store)
           /\ batch.status = "rejected" => batch'.status = "rejected"
           /\ last'.ok =>
                 /\ StripId(FindOne(store', "id", last'.note.id)) = last'.note
                 /\ Others(store', last'.note.id) = Others(store, last'.note.id)
      ]_vars

\* an element is written after the batch has reported a failure
C9_Witness ==
    /\ last.op = "saveNotes.update" /\ last.ok
    /\ batch.status = "rejected"
    /\ last.note \in {StripId(d) : d \in store}

\* C10: delete(id) removes the record with that id, and only it, and
\* returns 1; when no record has that id it returns 0 and the store is
\* unchanged.
C10_DeleteExactlyOne ==
    [][ last'.op = "deleteNote" =>
           IF Candidates(store, "id", last'.id) # {}
           THEN /\ last'.ret = 1
                /\ Candidates(store', "id", last'.id) = {}
                /\ Others(store', last'.id) = Others(store, last'.id)
           ELSE /\ last'.ret = 0
                /\ store' = store ]_vars

\* a record was deleted and another one is still stored
C10_Witness ==
    /\ last.op = "deleteNote" /\ last.ret = 1
    /\ store # {}
    /\ Candidates(store, "id", last.id) = {}

\* C11: distinctFolders() returns each folder value that occurs in some
\* record exactly once, and no null or missing folder value, also when a
\* stored record has no folder.
C11_DistinctFolders ==
    last.op = "getFolders" =>
        /\ \A d \in store :
              "folder" \in DOMAIN d =>
                  Cardinality({k \in DOMAIN last.ret : last.ret[k] = d.folder})
                      = 1
        /\ \A k \in DOMAIN last.ret :
              \E d \in store : "folder" \in DOMAIN d /\ d.folder = last.ret[k]

\* the fields of a metadata document that the caller of saveMetadata gave
SavedFields(doc) ==
    [f \in DOMAIN doc \ {"_id", "type", "updatedAt"} |-> doc[f]]

MetadataStoreOk ==
    /\ Cardinality(metaDb) <= 1
    /\ metaDb = {} =>
          LET m == getMetadataResult(metaDb) IN
          /\ m.indexed = FALSE
          /\ m.noteCount = 0
          /\ m.lastIndexed = "null"

\* C12: the metadata store holds at most one record in every reachable
\* state; load() before any save returns the defaults indexed = false,
\* noteCount = 0, lastIndexed = null; after any sequence of saves load()
\* returns exactly the fields of the last saved record plus the update
\* timestamp, with no field of an earlier save left over.
C12_SingleMetadataRecord ==
    [][ /\ MetadataStoreOk
        /\ MetadataStoreOk'
        /\ IF last'.op = "saveMetadata"
           THEN LET m == getMetadataResult(metaDb') IN
                /\ SavedFields(m) = last'.metadata
                /\ "updatedAt" \in DOMAIN m
           ELSE metaDb' = metaDb
        /\ last'.op = "getMetadata" =>
              last'.ret = getMetadataResult(metaDb) ]_vars

\* a load that returns a record saved without the extra field, which some
\* save before it had, or a first save
C12_Witness ==
    /\ last.op = "getMetadata"
    /\ metaDb # {}
    /\ last.ret.indexed
    /\ "folderCount" \notin DOMAIN last.ret

\* the four sort modes as the executor spells them
SortModes == {"relevance", "dateNewest", "dateOldest", "alphabetical"}

\* the sort mode that a mode written in any letter case names
EnumeratedMode(atom) ==
    CHOOSE m \in SortModes : toLowerCase(m) = toLowerCase(atom)

\* C13: for every raw query string, parse returns a sortBy that is one of
\* relevance, dateNewest, dateOldest, alphabetical, spelled exactly so; with
\* sort:<mode> in any letter case sortBy is that mode, otherwise relevance.
C13_SortByEnumerated ==
    last.op = "parseQuery" =>
        LET m == SortMatch(last.queryString) IN
        /\ last.ret.sortBy \in SortModes
        /\ last.ret.sortBy =
              IF m.found THEN EnumeratedMode(m.group1) ELSE "relevance"

\* C14: a query with sort:dateNewest, parsed and then executed, returns its
\* results ordered by modificationDate from newest to oldest, and with
\* sort:dateOldest from oldest to newest, whatever their relevance order.
C14_DateSortHonoured ==
    (/\ last.op = "advancedSearch"
     /\ ~last.ret.threw
     /\ SortMatch(last.queryString).found) =>
        LET mode == EnumeratedMode(SortMatch(last.queryString).group1)
            r == last.ret.results
            t(k) == NewDate(r[k].modificationDate)
        IN /\ mode = "dateNewest" =>
                 \A k \in 1..(Len(r) - 1) : t(k) >= t(k + 1)
           /\ mode = "dateOldest" =>
                 \A k \in 1..(Len(r) - 1) : t(k) <= t(k + 1)

\* a parse result without any directive
NoDirective(q) ==
    [query |-> q, folder |-> Null, dateRange |-> Null, sortBy |-> "relevance"]

\* C15: for every query string q, parsing parse(q).query extracts no
\* directive: folder = null, dateRange = null, sortBy = relevance and a
\* remainder equal to its input, also when q has a directive type twice.
C15_ParseRemainderExtractsNothing ==
    [][ (last'.op = "parseQuery" /\ last'.source # Null) =>
           /\ last'.queryString = last.ret.query
           /\ last'.ret = NoDirective(last'.queryString) ]_vars

\* outside the first match of each directive pattern, q has no directive
\* key and no quote
CleanQuery(q) ==
    LET span(m) == IF m.found THEN m.index..m.end ELSE {}
        covered == span(FolderMatch(q)) \cup span(DateMatch(q))
                   \cup span(SortMatch(q))
    IN \A k \in (1..Len(q)) \ covered : q[k] \notin KeyAtoms \cup {Quote}

\* C15 (amended): when q has no colon and no quote outside the first match
\* of each directive pattern, parsing parse(q).query extracts no directive
\* and returns its input as the remainder.
C15_CleanRemainderExtractsNothing ==
    [][ (/\ last'.op = "parseQuery"
         /\ last'.source # Null
         /\ CleanQuery(last'.source.str)) =>
           /\ last'.queryString = last.ret.query
           /\ last'.ret = NoDirective(last'.queryString) ]_vars

\* the remainder of a query with one directive of each type, parsed again
C15_Witness ==
    /\ last.op = "parseQuery"
    /\ last.source # Null
    /\ CleanQuery(last.source.str)
    /\ FolderMatch(last.source.str).found
    /\ DateMatch(last.source.str).found
    /\ SortMatch(last.source.str).found
    /\ last.ret = NoDirective(last.queryString)

\* the calendar day of a date, counted from 2023-01-01
Day(value) == NewDate(value) \div 24

\* the elements of a sequence
Elements(s) == {s[k] : k \in DOMAIN s}

\* C16: with a date-range filter {start, end} the executor retains exactly
\* the hits whose modificationDate, taken by the day, lies from the start
\* day to the end day inclusive, whatever the time of day.
C16_DateRangeByDay ==
    (/\ last.op = "advancedSearch"
     /\ ~last.ret.threw
     /\ last.options.dateRange # Null) =>
        LET range == last.options.dateRange
            unfiltered ==
                advancedSearchResult(
                    searchIndex, notesCache,
                    [last.options EXCEPT !.dateRange = Null]).results
        IN Elements(last.ret.results) =
              {n \in Elements(unfiltered) :
                  /\ Day(range.start) <= Day(n.modificationDate)
                  /\ Day(n.modificationDate) <= Day(range.end)}

\* a free-text term with nothing in it
EmptyTerm(q) == \A k \in DOMAIN q : q[k] = Space

\* an executed query with an empty term and neither filter
EmptyTermSearch ==
    /\ last.op = "advancedSearch"
    /\ EmptyTerm(last.options.query)
    /\ last.options.folder = Null
    /\ last.options.dateRange = Null

\* every note of the index with score 0, or no note, as the index has it
EmptyTermChoice ==
    IF searchIndex.matchAllOnEmpty
    THEN {("score" :> 0) @@ notesCache[k] : k \in DOMAIN notesCache}
    ELSE {}

\* C17: a search whose free-text term is empty after directive stripping,
\* with no folder or date filter, completes without raising or reporting
\* an error and returns a defined result set, the same choice every time,
\* whenever an index is built.
C17_EmptyTermNoError ==
    /\ EmptyTermSearch =>
          /\ ~last.ret.threw
          /\ Elements(last.ret.results) = EmptyTermChoice
    /\ (last.op = "searchNotes" /\ last.query = "" /\ searchIndex # Null) =>
          last.ret.success

\* C17 (amended): the executor, given an empty term and no filter, does not
\* throw and returns every note of the index with score 0 or no note, the
\* same choice every time; the search command refuses an empty query
\* string with an error result and does not search.
C17_EmptyTermExecutor ==
    /\ EmptyTermSearch =>
          /\ ~last.ret.threw
          /\ Elements(last.ret.results) = EmptyTermChoice
    /\ (last.op = "searchNotes" /\ last.query = "" /\ searchIndex # Null) =>
          /\ ~last.ret.success
          /\ last.ret.error = "Please provide a search query"

\* a query of one sort directive only, executed on an index whose empty
\* query matches every note
C17_Witness ==
    /\ EmptyTermSearch
    /\ SortMatch(last.queryString).found
    /\ Len(last.ret.results) = Len(notesCache)
    /\ Len(notesCache) > 0

\* the ids of the records of the store, of the documents of the index
StoreIds == {d.id : d \in store}

IndexIds == {searchIndex.docs[k].id : k \in DOMAIN searchIndex.docs}

\* C18: immediately after any build completes successfully, the store and
\* the in-memory index hold the same set of note ids, so getStats reports
\* totalNotes equal to indexed.
C18_StoreMatchesIndex ==
    (last.op = "indexNotes" /\ last.success) =>
        LET stats == getIndexStatsResult(store, notesCache, searchIndex) IN
        /\ StoreIds = IndexIds
        /\ stats.totalNotes = stats.indexed

\* C19: a search sees the index and the snapshot of one and the same
\* build, also while another build is in progress; in every reachable
\* state each id held by the in-memory index resolves to a record of the
\* in-memory snapshot.
C19_IndexPairedWithSnapshot ==
    /\ searchIndex # Null =>
          /\ searchIndex = lunrIndex(notesCache)
          /\ \A id \in IndexIds :
                \E k \in DOMAIN notesCache : notesCache[k].id = id
    /\ (last.op = "searchNotes" /\ last.ret.success) =>
          /\ last.ret = searchNotesResult(searchIndex, notesCache, last.query)
          /\ \A k \in DOMAIN last.ret.results :
                /\ "id" \in DOMAIN last.ret.results[k]
                /\ last.ret.results[k].id \in IndexIds

\* a search that finds notes of the build before, while the upserts of a
\* build of other notes are under way
C19_Witness ==
    /\ last.op = "searchNotes"
    /\ last.ret.success
    /\ last.ret.count > 0
    /\ build.pc = "upsert"
    /\ build.notes # notesCache

\* the store has the note as the build wrote it
Stored(note) == \E d \in store : StripId(d) = note

\* C20: within one build one upsert is in flight at a time and upserts are
\* issued in fetch order: while the upsert of note k+1 is pending, k+1
\* upserts have been issued and those of notes 1..k have completed; the
\* index is rebuilt only after the upsert of the last note has completed.
C20_UpsertsOneAtATime ==
    /\ build.pc = "upsert" =>
          /\ build.i < Len(build.notes)
          /\ Len(build.progress) = build.i + 1
          /\ \A j \in 1..Len(build.progress) :
                build.progress[j].note = build.notes[j].name
          /\ \A j \in 1..build.i : Stored(build.notes[j])
    /\ (last.op = "indexNotes" /\ last.success) =>
          /\ Len(last.progress) = Len(last.notes)
          /\ \A j \in 1..Len(last.notes) : Stored(last.notes[j])

\* the upsert of the second note is pending, the first is in the store
C20_Witness ==
    /\ build.pc = "upsert"
    /\ build.i = 1
    /\ Len(build.notes) > 1
    /\ Stored(build.notes[1])
    /\ ~Stored(build.notes[2])

\* the fields of a note record of the index
NoteFields == {"id", "name", "folder", "modificationDate"}

\* C21: when the index returns a reference whose id has no record in the
\* note collection used for resolution, the executor leaves that hit out
\* and raises no error: every element of a search result is a full note
\* record plus its score, under every sort mode.
C21_ResultsAreFullRecords ==
    (/\ last.op = "advancedSearch"
     /\ ~enhancedSearch(searchIndex, last.options.query).threw) =>
        /\ ~last.ret.threw
        /\ \A k \in DOMAIN last.ret.results :
              NoteFields \cup {"score"} \subseteq DOMAIN last.ret.results[k]

\* C22: if the store upsert of the k-th fetched note fails during a build,
\* the build request fails, the in-memory index and the notes snapshot keep
\* the values they had before the build, no further upsert or progress
\* callback of that build happens, and the upserts of notes 1..k-1 stay
\* committed in the store.
C22_FailedUpsertFailsBuild ==
    [][ (build.pc = "upsert" /\ last'.op = "indexNotes" /\ ~last'.success) =>
           /\ searchIndex' = searchIndex
           /\ notesCache' = notesCache
           /\ build' = Idle
           /\ last'.progress = build.progress
           /\ Len(last'.progress) = build.i + 1
           /\ store' = store
           /\ \A j \in 1..build.i :
                 \E d \in store' : StripId(d) = build.notes[j] ]_vars

\* the upsert of the second note failed while an index of another build
\* was in memory; the first note is in the store, the second is not
C22_Witness ==
    /\ last.op = "indexNotes"
    /\ ~last.success
    /\ Len(last.progress) = 2
    /\ searchIndex # Null
    /\ notesCache # last.notes
    /\ Stored(last.notes[1])
    /\ ~Stored(last.notes[2])

=============================================================================
